---- MODULE Spec2Model ----
(***************************************************************************)
(* Mapping-sync engine of client/mapping-sync/src/lib.rs: sync_blocks,     *)
(* sync_one_level, sync_block and sync_genesis_block, run against a host   *)
(* chain that imports and finalizes blocks concurrently, and against the   *)
(* frontier database (mapping entries and the current-syncing-tips record).*)
(***************************************************************************)
EXTENDS Integers, Sequences, FiniteSets, TLC

\* Highest block number of the host chain universe.
MaxHeight == 3
\* Largest `limit` handed to sync_blocks.
MaxLimit == 3

(***************************************************************************)
(* Host chain universe.  Block identities are 0..2*MaxHeight; 0 is the     *)
(* genesis block and every number k >= 1 has the two blocks 2k-1 and 2k.   *)
(* The odd blocks form one chain from genesis.  The even blocks are its    *)
(* forks: at an odd number an even block is the sibling of the odd block   *)
(* (a fork starts there), at an even number it extends the even block      *)
(* below it (the fork grows).                                              *)
(***************************************************************************)
Genesis == 0
Blocks == Genesis..(2 * MaxHeight)
Number(b) == (b + 1) \div 2
Parent(b) ==
    IF Number(b) <= 1 THEN Genesis
    ELSE IF b % 2 = 1 THEN b - 2
    ELSE IF Number(b) % 2 = 0 THEN b - 2
    ELSE b - 3

RECURSIVE Ancestors(_)
Ancestors(b) == IF b = Genesis THEN {} ELSE {Parent(b)} \cup Ancestors(Parent(b))
AncestorsOrSelf(b) == Ancestors(b) \cup {b}

\* Secondary-ledger identities carried by the host blocks.
EthHash(b) == 100 + b
EthTxs(b) == IF b = Genesis THEN <<>> ELSE IF b % 2 = 1 THEN <<200 + b>> ELSE <<200 + b, 300 + b>>
OtherItem == [engine |-> "aura", block_hash |-> 0, transaction_hashes |-> <<>>]
FrontierItem(b) == [engine |-> "fron", block_hash |-> EthHash(b), transaction_hashes |-> EthTxs(b)]
\* The digest of a header: the even branch carries broken digests from
\* number 2 on (no consensus log, or two of them).
Digest(b) ==
    IF b % 2 = 0 /\ Number(b) >= 2
    THEN (IF b % 4 = 0 THEN <<OtherItem>> ELSE <<FrontierItem(b), FrontierItem(b)>>)
    ELSE <<OtherItem, FrontierItem(b)>>
Header(b) == [hash |-> b, number |-> Number(b), parent_hash |-> Parent(b), digest |-> Digest(b)]

VARIABLES
    imported, chain_children, best, finalized,          \* host chain backend
    import_lock,                                        \* its import lock, held by the engine
    stored_tips, mapping,                               \* frontier database
    pc, limit, iter, synced_any, result,                \* sync_blocks
    levels, lagging,                                    \* observers of the call in progress
    current_syncing_tips, last_finalized, tip_idx,      \* sync_one_level
    children, child_idx, child,
    tips0, mapping0, tipsC, mappingC,                   \* persisted state at step / call entry
    overwrote, quiet, test_failed, prev                 \* observers

blocktree == <<imported, chain_children, best, finalized>>
chain == <<blocktree, import_lock>>
store == <<stored_tips, mapping>>
frame == <<current_syncing_tips, last_finalized, tip_idx, children, child_idx, child>>
driver == <<limit, iter, synced_any, levels, lagging>>
snaps == <<tips0, mapping0, tipsC, mappingC>>
observers == <<overwrote, quiet, test_failed, prev>>
vars == <<chain, store, pc, driver, result, frame, snaps, observers>>

Range(s) == {s[k] : k \in 1..Len(s)}
NoChild == 0 - 1

(***************************************************************************)
(* Collaborators: consensus log decoder, mapping database, chain backend.  *)
(***************************************************************************)
IsFrontierLog(item) == item.engine = "fron"
find_log(digest) ==
    LET logs == SelectSeq(digest, IsFrontierLog)
    IN  IF Len(logs) = 0 THEN [ok |-> FALSE, err |-> "NotFound", log |-> OtherItem]
        ELSE IF Len(logs) > 1 THEN [ok |-> FALSE, err |-> "MultipleLogs", log |-> OtherItem]
        ELSE [ok |-> TRUE, err |-> "", log |-> logs[1]]
into_hashes(log) == [block_hash |-> log.block_hash, transaction_hashes |-> log.transaction_hashes]

write_hashes(m, commitment) ==
    [k \in (DOMAIN m) \cup {commitment.block_hash} |->
        IF k = commitment.block_hash THEN commitment ELSE m[k]]

\* best_containing(hash, None, lock) answers Some: the block lies on the best
\* chain.  (A backend that also answers Some for a block above the finalized
\* number on another fork gives the step the same outcome: line 139 rejects
\* every block above the number read at line 105, and line 145 returns.)
best_containing(b) == b \in AncestorsOrSelf(best)

(***************************************************************************)
(* Pure parts of the engine.                                               *)
(***************************************************************************)
\* sync_block, lines 36-40: the commitment built from a header and its log.
MappingCommitment(header, post_hashes) ==
    [block_hash |-> header.hash,
     ethereum_block_hash |-> post_hashes.block_hash,
     ethereum_transaction_hashes |-> post_hashes.transaction_hashes]

\* Variant: the genesis entry records the host hash as the secondary hash.
GenesisCommitmentHostHash(header, block_hash) ==
    [block_hash |-> header.hash,
     ethereum_block_hash |-> header.hash,
     ethereum_transaction_hashes |-> <<>>]
\* sync_genesis_block, lines 60-64.
GenesisCommitment(header, block_hash) ==
    [block_hash |-> header.hash,
     ethereum_block_hash |-> block_hash,
     ethereum_transaction_hashes |-> <<>>]

\* Variants: the finality test dropped, off by one, and strict.
AlwaysFinalizedNumber(child_number, last_fin) == TRUE
IsFinalizedNumberOffByOne(child_number, last_fin) == child_number <= last_fin + 1
IsFinalizedNumberStrict(child_number, last_fin) == child_number < last_fin
\* line 139: child_number <= last_finalized
IsFinalizedNumber(child_number, last_fin) == child_number <= last_fin

\* Variant: a tip with children never ends the step.
TipNeverDecides(actual_children_count) == FALSE
\* Variant: a tip without children ends the step as well.
TipAlwaysDecides(actual_children_count) == TRUE
\* line 144: actual_children_count > 0
TipDecides(actual_children_count) == actual_children_count > 0

\* Variant: the syncing tip is kept.
retainAll(tips, syncing_tip) == tips
\* line 152: current_syncing_tips.retain(|tip| tip != &syncing_tip)
retain(tips, syncing_tip) == SelectSeq(tips, LAMBDA t : t # syncing_tip)

\* line 161 / line 98: current_syncing_tips.push(child)
push(tips, b) == Append(tips, b)

\* Variant: the child is not pushed.
NextTipsWithoutChild(tips, syncing_tip, c) == retain(tips, syncing_tip)
\* lines 152 and 161: the tips after a level, the syncing tip replaced by
\* its child.
NextTips(tips, syncing_tip, c) == push(retain(tips, syncing_tip), c)

\* Variant: `&&` in place of `||`.
AccumulateAnd(any, level) == any /\ level
\* line 186: synced_any || sync_one_level(..)?
Accumulate(any, level) == any \/ level

(***************************************************************************)
(* Initial state: a chain that holds only its genesis block, an empty      *)
(* frontier database, the engine idle.                                     *)
(***************************************************************************)
EmptyMapping == [k \in {} |-> 0]
NoFrame ==
    /\ current_syncing_tips' = <<>>
    /\ last_finalized' = 0
    /\ tip_idx' = 0
    /\ children' = <<>>
    /\ child_idx' = 0
    /\ child' = NoChild

Init ==
    /\ imported = {Genesis}
    /\ chain_children = [b \in Blocks |-> <<>>]
    /\ best = Genesis
    /\ finalized = Genesis
    /\ import_lock = FALSE
    /\ stored_tips = <<>>
    /\ mapping = EmptyMapping
    /\ pc = "idle"
    /\ limit = 0 /\ iter = 0 /\ synced_any = FALSE
    /\ levels = 0 /\ lagging = FALSE
    /\ result = "none"
    /\ current_syncing_tips = <<>> /\ last_finalized = 0 /\ tip_idx = 0
    /\ children = <<>> /\ child_idx = 0 /\ child = NoChild
    /\ tips0 = <<>> /\ mapping0 = EmptyMapping
    /\ tipsC = <<>> /\ mappingC = EmptyMapping
    /\ overwrote = FALSE /\ quiet = FALSE /\ test_failed = FALSE /\ prev = "none"

(***************************************************************************)
(* Host chain: block import and finalization, concurrent with the engine.  *)
(* A change of the chain ends the window in which a repeated call is known *)
(* to see the same chain; once the engine is idle it also makes the last   *)
(* call's result and snapshots stale.                                      *)
(***************************************************************************)
ChainChanged ==
    /\ quiet' = FALSE
    /\ test_failed' = IF pc = "idle" THEN FALSE ELSE test_failed
    /\ prev' = "none"
    /\ overwrote' = IF pc = "idle" THEN FALSE ELSE overwrote
    /\ result' = IF pc = "idle" THEN "stale" ELSE result
    /\ tips0' = IF pc = "idle" THEN stored_tips ELSE tips0
    /\ tipsC' = IF pc = "idle" THEN stored_tips ELSE tipsC
    /\ mapping0' = IF pc = "idle" THEN mapping ELSE mapping0
    /\ mappingC' = IF pc = "idle" THEN mapping ELSE mappingC
    /\ UNCHANGED <<store, pc, driver, frame>>

\* A block is imported on top of an imported parent, above the finalized
\* number; it may become the best block when it extends the finalized chain.
\* Import and finalization take the import lock, so neither runs while the
\* engine holds it.
Import(b, new_best) ==
    /\ ~import_lock
    /\ b \notin imported
    /\ Parent(b) \in imported
    /\ Number(b) > Number(finalized)
    /\ new_best => finalized \in Ancestors(b)
    /\ imported' = imported \cup {b}
    /\ chain_children' = [chain_children EXCEPT ![Parent(b)] = Append(@, b)]
    /\ best' = IF new_best THEN b ELSE best
    /\ UNCHANGED <<finalized, import_lock>>
    /\ ChainChanged

\* A descendant of the finalized block is finalized; the best block moves to
\* it when the best chain does not contain it.
Finalize(b) ==
    /\ ~import_lock
    /\ b \in imported
    /\ finalized \in Ancestors(b)
    /\ finalized' = b
    /\ best' = IF b \in AncestorsOrSelf(best) THEN best ELSE b
    /\ UNCHANGED <<imported, chain_children, import_lock>>
    /\ ChainChanged

(***************************************************************************)
(* sync_blocks (lines 173-190).                                            *)
(***************************************************************************)
\* The call ends with an error (`?`) or is interrupted.
Abort(msg) ==
    /\ pc' = "idle"
    /\ result' = msg
    /\ limit' = 0 /\ iter' = 0 /\ synced_any' = FALSE
    /\ levels' = 0 /\ lagging' = FALSE
    /\ NoFrame

\* Variant: a repetition without progress leaves the loop (`break`).
NextRepetitionOrBreak(it, lim, level) == IF level THEN it + 1 ELSE lim
\* line 185: `for _ in 0..limit` has no break; after any Ok the loop goes on
\* to the next repetition.
NextRepetition(it, lim, level) == it + 1

\* sync_one_level returned Ok(level): line 186, then the next repetition.
LevelDone(level) ==
    /\ synced_any' = Accumulate(synced_any, level)
    /\ iter' = NextRepetition(iter, limit, level)
    /\ pc' = "loop"
    /\ NoFrame
    /\ UNCHANGED <<limit, result, levels, lagging>>

StartCall(n) ==
    /\ pc = "idle"
    /\ pc' = "loop"
    /\ limit' = n /\ iter' = 0 /\ synced_any' = FALSE
    /\ levels' = 0
    /\ lagging' = (stored_tips # <<>> /\ \A t \in Range(stored_tips) : Number(finalized) > Number(t))
    /\ result' = "running"
    /\ tipsC' = stored_tips /\ mappingC' = mapping
    /\ tips0' = stored_tips /\ mapping0' = mapping
    /\ overwrote' = FALSE
    /\ prev' = IF result = "Ok(false)" /\ quiet
               THEN (IF test_failed THEN "same_chain" ELSE "clean")
               ELSE "none"
    /\ quiet' = TRUE
    /\ test_failed' = FALSE
    /\ UNCHANGED <<chain, store, frame>>

\* line 189: Ok(synced_any)
Return ==
    /\ pc = "loop" /\ iter = limit
    /\ pc' = "idle"
    /\ result' = IF synced_any THEN "Ok(true)" ELSE "Ok(false)"
    /\ limit' = 0 /\ iter' = 0 /\ synced_any' = FALSE
    /\ levels' = 0 /\ lagging' = FALSE
    /\ UNCHANGED <<chain, store, frame, snaps, overwrote, quiet, test_failed, prev>>

\* line 186 with synced_any already true: `||` does not evaluate its right side.
SkipLevel ==
    /\ pc = "loop" /\ iter < limit /\ synced_any
    /\ iter' = iter + 1
    /\ UNCHANGED <<chain, store, pc, limit, synced_any, levels, lagging, result, frame, snaps, overwrote, quiet, test_failed, prev>>

(***************************************************************************)
(* sync_one_level (lines 70-171).                                          *)
(***************************************************************************)
\* line 80: read the current syncing tips.
ReadTips(ok) ==
    /\ pc = "loop" /\ iter < limit /\ ~synced_any
    /\ tips0' = stored_tips /\ mapping0' = mapping
    /\ UNCHANGED <<chain, store, tipsC, mappingC, overwrote, quiet, test_failed, prev>>
    /\ IF ok
       THEN /\ current_syncing_tips' = stored_tips
            /\ pc' = IF Len(stored_tips) = 0 THEN "genesis" ELSE "finalized"
            /\ levels' = levels + 1
            /\ UNCHANGED <<limit, iter, synced_any, lagging, result, last_finalized, tip_idx, children, child_idx, child>>
       ELSE Abort("current_syncing_tips failed")

\* lines 90-96 and sync_genesis_block: the lookups, then the genesis entry.
SyncGenesisBlock(outcome) ==
    /\ pc = "genesis"
    /\ UNCHANGED <<chain, stored_tips, snaps, quiet, test_failed, prev>>
    /\ IF outcome = "ok"
       THEN /\ mapping' = write_hashes(mapping, GenesisCommitment(Header(Genesis), EthHash(Genesis)))
            /\ overwrote' = (Genesis \in DOMAIN mapping)
            /\ current_syncing_tips' = push(current_syncing_tips, Header(Genesis).hash)
            /\ pc' = "genesis_tips"
            /\ UNCHANGED <<driver, result, last_finalized, tip_idx, children, child_idx, child>>
       ELSE /\ Abort(outcome)
            /\ UNCHANGED <<mapping, overwrote>>

GenesisOutcomes ==
    {"ok", "error get finalzied block", "header failed", "Genesis header not found",
     "current_block failed", "Ethereum genesis block not found", "write_hashes failed"}

\* line 99 and line 163: write the current syncing tips; then Ok(true).
WriteTips(ok) ==
    /\ pc \in {"genesis_tips", "tips"}
    /\ UNCHANGED <<chain, mapping, snaps, overwrote, quiet, test_failed, prev>>
    /\ IF ok
       THEN /\ stored_tips' = current_syncing_tips
            /\ LevelDone(TRUE)
       ELSE /\ Abort("write_current_syncing_tips failed")
            /\ UNCHANGED stored_tips

\* lines 105-109: the number of the last finalized block.
ReadLastFinalized(outcome) ==
    /\ pc = "finalized"
    /\ UNCHANGED <<chain, store, snaps, overwrote, quiet, test_failed, prev>>
    /\ IF outcome = "ok"
       THEN /\ last_finalized' = Number(finalized)
            /\ tip_idx' = 1
            /\ pc' = "children"
            /\ UNCHANGED <<driver, result, current_syncing_tips, children, child_idx, child>>
       ELSE Abort(outcome)

\* lines 144-147, then the next tip of the loop; past the last tip, line 168.
AfterTip(actual_children_count) ==
    IF TipDecides(actual_children_count)
    THEN LevelDone(FALSE)
    ELSE IF tip_idx < Len(current_syncing_tips)
         THEN /\ tip_idx' = tip_idx + 1
              /\ children' = <<>> /\ child_idx' = 0 /\ child' = NoChild
              /\ pc' = "children"
              /\ UNCHANGED <<driver, result, current_syncing_tips, last_finalized>>
         ELSE LevelDone(FALSE)

\* lines 113-117: the children of the tip at tip_idx.
ReadChildren(ok) ==
    /\ pc = "children"
    /\ UNCHANGED <<chain, store, snaps, overwrote, quiet, test_failed, prev>>
    /\ IF ~ok
       THEN Abort("children failed")
       ELSE LET found == chain_children[current_syncing_tips[tip_idx]]
            IN  IF Len(found) > 0
                THEN /\ children' = found
                     /\ child_idx' = 1
                     /\ pc' = "containing"
                     /\ UNCHANGED <<driver, result, current_syncing_tips, last_finalized, tip_idx, child>>
                ELSE AfterTip(Len(found))

\* Variant: the read guard lives as long as `lock` of line 121 is in scope
\* and beyond.
HoldsLockAcrossStep == TRUE
\* lines 120-132: line 121 only fetches the lock; best_containing takes its
\* read guard for the test and drops it before it returns.
HoldsLockAfterTest == FALSE

\* line 123: best_containing takes the import lock for the test of a child.
AcquireLock ==
    /\ pc = "containing" /\ ~import_lock
    /\ import_lock' = TRUE
    /\ UNCHANGED <<blocktree, store, pc, driver, result, frame, snaps, observers>>

\* Variant: an error of the containment test ends the step (`?`).
ContainmentErrorPropagates(outcome) == outcome # "ok"
\* lines 126-129: Err(e) => false
ContainmentErrorEnds(outcome) == FALSE

\* lines 120-132: one containment test of `find`, made under the import lock;
\* an error of the test counts as "not contained".
BestContaining(outcome) ==
    /\ pc = "containing" /\ import_lock
    /\ import_lock' = HoldsLockAfterTest
    /\ UNCHANGED <<blocktree, store, snaps, overwrote, quiet, prev>>
    /\ test_failed' = (test_failed \/ outcome # "ok")
    /\ LET c == children[child_idx]
       IN  IF ContainmentErrorEnds(outcome)
           THEN Abort("best_containing failed")
           ELSE
           IF outcome = "ok" /\ best_containing(c)
           THEN /\ child' = c
                /\ pc' = "number"
                /\ UNCHANGED <<driver, result, current_syncing_tips, last_finalized, tip_idx, children, child_idx>>
           ELSE IF child_idx < Len(children)
                THEN /\ child_idx' = child_idx + 1
                     /\ UNCHANGED <<pc, driver, result, current_syncing_tips, last_finalized, tip_idx, children, child>>
                ELSE AfterTip(Len(children))

\* lines 134-143: the number of the child found, compared with last_finalized.
ChildNumber(outcome) ==
    /\ pc = "number"
    /\ UNCHANGED <<chain, store, snaps, overwrote, quiet, test_failed, prev>>
    /\ IF outcome # "ok"
       THEN Abort(outcome)
       ELSE IF IsFinalizedNumber(Number(child), last_finalized)
            THEN /\ pc' = "sync"
                 /\ UNCHANGED <<driver, result, frame>>
            ELSE AfterTip(Len(children))

\* Variant: sync_block returns without writing the commitment.
sync_block_unwritten(m, header) == m
\* sync_block (lines 29-45) on a header whose log decodes: the mapping
\* database after write_hashes.
sync_block(m, header) ==
    write_hashes(m, MappingCommitment(header, into_hashes(find_log(header.digest).log)))

\* Variant: a digest whose log does not decode is not an error of sync_block.
sync_block_error_lenient(m, header, outcome) == outcome
\* Variant: sync_block refuses a block that already has an entry in m.
sync_block_error_if_written(m, header, outcome) ==
    IF ~find_log(header.digest).ok THEN find_log(header.digest).err
    ELSE IF header.hash \in DOMAIN m THEN "write_hashes failed" ELSE outcome
\* sync_block, lines 33 and 41-43, on the mapping database m: the error it
\* returns, the decode error of find_log before the one of write_hashes; "ok"
\* when there is none.  The entries of m play no part.
sync_block_error(m, header, outcome) ==
    IF ~find_log(header.digest).ok THEN find_log(header.digest).err ELSE outcome

\* lines 151-161: drop the syncing tip, fetch the child's header, sync_block,
\* push the child.
SyncBlock(outcome) ==
    /\ pc = "sync"
    /\ UNCHANGED <<chain, stored_tips, snaps, quiet, test_failed, prev>>
    /\ LET header == Header(child)
           msg == IF outcome \in {"header failed", "Header not found"} THEN outcome
                  ELSE sync_block_error(mapping, header, outcome)
       IN  IF msg = "ok"
           THEN /\ mapping' = sync_block(mapping, header)
                /\ overwrote' = (header.hash \in DOMAIN mapping)
                /\ current_syncing_tips' =
                       NextTips(current_syncing_tips, current_syncing_tips[tip_idx], child)
                /\ pc' = "tips"
                /\ UNCHANGED <<driver, result, last_finalized, tip_idx, children, child_idx, child>>
           ELSE /\ Abort(msg)
                /\ UNCHANGED <<mapping, overwrote>>

\* The process stops in the middle of a level.
Crash ==
    /\ pc \notin {"idle", "loop"}
    /\ Abort("interrupted")
    /\ import_lock' = FALSE
    /\ UNCHANGED <<blocktree, store, snaps, overwrote, quiet, test_failed, prev>>

Engine ==
    \/ \E n \in 1..MaxLimit : StartCall(n)
    \/ Return
    \/ SkipLevel
    \/ \E ok \in BOOLEAN : ReadTips(ok)
    \/ \E o \in GenesisOutcomes : SyncGenesisBlock(o)
    \/ \E ok \in BOOLEAN : WriteTips(ok)
    \/ \E o \in {"ok", "error get finalzied block", "error get finalzied block number"} : ReadLastFinalized(o)
    \/ \E ok \in BOOLEAN : ReadChildren(ok)
    \/ AcquireLock
    \/ \E o \in {"ok", "err"} : BestContaining(o)
    \/ \E o \in {"ok", "error get child block number", "error get child number"} : ChildNumber(o)
    \/ \E o \in {"ok", "header failed", "Header not found", "write_hashes failed"} : SyncBlock(o)
    \/ Crash

Chain ==
    \/ \E b \in Blocks, nb \in BOOLEAN : Import(b, nb)
    \/ \E b \in Blocks : Finalize(b)

Next == Engine \/ Chain

Spec == Init /\ [][Next]_vars

TypeOK ==
    /\ imported \subseteq Blocks /\ best \in imported /\ finalized \in AncestorsOrSelf(best)
    /\ Range(stored_tips) \subseteq Blocks
    /\ DOMAIN mapping \subseteq Blocks

(***************************************************************************)
(* A second specification: the step run on a frontier record of up to two  *)
(* tips (the record is a sequence, and the loop of lines 113-147 walks all *)
(* of it), over an imported block tree that does not change.               *)
(***************************************************************************)
Decodable(b) == \A a \in AncestorsOrSelf(b) \ {Genesis} : find_log(Digest(a)).ok
Entry(b) ==
    [block_hash |-> b, ethereum_block_hash |-> EthHash(b), ethereum_transaction_hashes |-> EthTxs(b)]
TipRecords ==
    {<<>>} \cup {<<a>> : a \in {b \in Blocks : Decodable(b)}}
           \cup {<<a, z>> : a, z \in {b \in Blocks : Decodable(b)}}
KidsOf(b) == {c \in Blocks \ {Genesis} : Parent(c) = b}
\* The children of b in the order of their import: ascending, or descending
\* when `flipped`.
ChildOrder(b, flipped) ==
    LET kids == KidsOf(b)
        lo == CHOOSE c \in kids : \A d \in kids : c <= d
        hi == CHOOSE c \in kids : \A d \in kids : c >= d
    IN  IF kids = {} THEN <<>>
        ELSE IF lo = hi THEN <<lo>>
        ELSE IF flipped THEN <<hi, lo>> ELSE <<lo, hi>>

InitTips ==
    /\ imported \in {S \in SUBSET Blocks : Genesis \in S /\ \A b \in S : Parent(b) \in S}
    /\ \E flip \in SUBSET {b \in Blocks : Cardinality(KidsOf(b)) = 2} :
          chain_children = [b \in Blocks |->
              IF b \in imported
              THEN SelectSeq(ChildOrder(b, b \in flip), LAMBDA c : c \in imported)
              ELSE <<>>]
    /\ finalized \in imported
    /\ best \in {b \in imported : finalized \in AncestorsOrSelf(b)}
    /\ import_lock = FALSE
    /\ stored_tips \in TipRecords
    /\ Range(stored_tips) \subseteq imported
    /\ \A a, z \in Range(stored_tips) : a # z => (a \notin Ancestors(z) /\ z \notin Ancestors(a))
    /\ Len(stored_tips) = 2 => stored_tips[1] # stored_tips[2]
    /\ \A a \in Range(stored_tips) : Number(a) <= Number(finalized)
    /\ mapping = [b \in UNION {AncestorsOrSelf(a) : a \in Range(stored_tips)} |-> Entry(b)]
    /\ pc = "idle"
    /\ limit = 0 /\ iter = 0 /\ synced_any = FALSE
    /\ levels = 0 /\ lagging = FALSE
    /\ result = "none"
    /\ current_syncing_tips = <<>> /\ last_finalized = 0 /\ tip_idx = 0
    /\ children = <<>> /\ child_idx = 0 /\ child = NoChild
    /\ tips0 = stored_tips /\ mapping0 = mapping
    /\ tipsC = stored_tips /\ mappingC = mapping
    /\ overwrote = FALSE /\ quiet = FALSE /\ test_failed = FALSE /\ prev = "none"

SpecTips == InitTips /\ [][Engine]_vars

(***************************************************************************)
(* A third specification: sync_blocks is called again and again, no lookup, *)
(* decoding or write fails, the process does not stop, and the chain only   *)
(* finalizes blocks whose logs decode.                                      *)
(***************************************************************************)
EngineOk ==
    \/ \E n \in 1..MaxLimit : StartCall(n)
    \/ Return
    \/ SkipLevel
    \/ ReadTips(TRUE)
    \/ SyncGenesisBlock("ok")
    \/ WriteTips(TRUE)
    \/ ReadLastFinalized("ok")
    \/ ReadChildren(TRUE)
    \/ AcquireLock
    \/ BestContaining("ok")
    \/ ChildNumber("ok")
    \/ SyncBlock("ok")

ChainOk ==
    \/ \E b \in Blocks, nb \in BOOLEAN : Import(b, nb)
    \/ \E b \in {c \in Blocks : Decodable(c)} : Finalize(b)

NextLive == EngineOk \/ ChainOk

\* The worker's timer and import notifications call sync_blocks for ever, and
\* a call in progress runs on: weak fairness of the engine's steps.
SpecLive == Init /\ [][NextLive]_vars /\ WF_vars(EngineOk)

(***************************************************************************)
(* Properties.                                                             *)
(***************************************************************************)
Failed == pc = "idle" /\ result \notin {"none", "stale", "Ok(true)", "Ok(false)"}
\* A repetition of the call in progress has ended; since the call started the
\* chain did not change and no containment test failed.
LevelEnded == pc = "loop" /\ iter >= 1 /\ quiet /\ ~test_failed
Qualifies(c) == best_containing(c) /\ Number(c) <= Number(finalized)

\* C1: every identity of the persisted frontier has a mapping entry, in every
\* reachable state (failed and interrupted calls included).
C1_FrontierIndexed == \A t \in Range(stored_tips) : t \in DOMAIN mapping
\* A call failed at the frontier write after the entry of a non-genesis block
\* was written.
C1_Witness ==
    /\ Failed /\ result = "write_current_syncing_tips failed"
    /\ Len(stored_tips) = 1 /\ stored_tips[1] # Genesis
    /\ mapping # mapping0

\* C2: a step or bootstrap that fails or is interrupted leaves the persisted
\* frontier and the mapping store as they were before it, and no entry of a
\* child is stored while the frontier still holds its parent and not the child.
C2_NoPartialCommit ==
    /\ Failed => (stored_tips = tips0 /\ mapping = mapping0)
    /\ \A c \in (DOMAIN mapping) \ {Genesis} :
          ~(Parent(c) \in Range(stored_tips) /\ c \notin Range(stored_tips))

\* C3: every non-genesis block that has a mapping entry is the last finalized
\* block or one of its ancestors, at the write and ever after.
C3_OnlyFinalizedIndexed == \A b \in DOMAIN mapping : b \in AncestorsOrSelf(finalized)
\* The entry of a child was written after the chain finalized past the number
\* the step had read.
C3_Witness ==
    /\ pc = "tips" /\ child # Genesis /\ child \in DOMAIN mapping
    /\ Number(finalized) > last_finalized

\* The number of consecutive levels above tip t that are ready: a child on the
\* best chain, at or below the finalized number, with a decodable log.
RECURSIVE ReadyLevels(_)
ReadyLevels(t) ==
    LET ready == {c \in Range(chain_children[t]) : Qualifies(c) /\ find_log(Digest(c)).ok}
    IN  IF ready = {} THEN 0 ELSE 1 + ReadyLevels(CHOOSE c \in ready : TRUE)

\* C4: when at least `limit` consecutive levels above the frontier are ready, a
\* call sync_blocks(limit) advances the frontier by `limit` levels and returns true.
C4_BatchDrains ==
    (/\ pc = "loop" /\ iter = limit /\ quiet /\ ~test_failed
     /\ Len(tipsC) = 1 /\ ReadyLevels(tipsC[1]) >= limit)
    => (/\ synced_any
        /\ Len(stored_tips) = 1
        /\ Number(stored_tips[1]) = Number(tipsC[1]) + limit)

\* C5: with a frontier of two tips whose first has children, none of them on
\* the best chain at or below the finalized number, the step returns
\* Ok(false) and writes nothing, whatever the second tip has; and a pair is
\* only ever selected from the first tip that has children.
C5_FirstTipBlocks ==
    /\ (/\ LevelEnded /\ Len(tipsC) = 2
        /\ chain_children[tipsC[1]] # <<>>
        /\ \A c \in Range(chain_children[tipsC[1]]) : ~Qualifies(c))
       => (~synced_any /\ stored_tips = tipsC /\ mapping = mappingC)
    /\ pc \in {"sync", "tips"} => \A k \in 1..(tip_idx - 1) : chain_children[tips0[k]] = <<>>
\* The second tip had a child that qualifies, and the step still returned Ok(false).
C5_Witness ==
    /\ LevelEnded /\ Len(tipsC) = 2 /\ ~synced_any
    /\ chain_children[tipsC[1]] # <<>>
    /\ \A c \in Range(chain_children[tipsC[1]]) : ~Qualifies(c)
    /\ \E c \in Range(chain_children[tipsC[2]]) : Qualifies(c) /\ find_log(Digest(c)).ok

\* C6: frontier <<A>>, A with two children of which B is on the best chain at
\* or below the finalized number: the step returns Ok(true), the frontier
\* becomes <<B>>, the store gains the entry decoded from B's header and
\* nothing else.
C6_SingleStep ==
    \A A \in Blocks : \A B \in Range(chain_children[A]) :
        (/\ LevelEnded /\ tipsC = <<A>>
         /\ Len(chain_children[A]) = 2 /\ Qualifies(B))
        => (/\ synced_any
            /\ stored_tips = <<B>>
            /\ mapping = [k \in (DOMAIN mappingC) \cup {B} |-> IF k = B THEN Entry(B) ELSE mappingC[k]])
\* B is the second child in enumeration order and had no entry before.
C6_Witness ==
    \E A \in Blocks :
        /\ LevelEnded /\ tipsC = <<A>> /\ Len(chain_children[A]) = 2
        /\ Qualifies(chain_children[A][2])
        /\ chain_children[A][2] \notin DOMAIN mappingC
        /\ chain_children[A][1] \notin DOMAIN mapping
        /\ stored_tips = <<chain_children[A][2]>>

\* C7: frontier <<A>> whose child D on the best chain has a number above the
\* finalized one: the step returns Ok(false) and changes nothing; and no block
\* has an entry while its number is above the finalized number.
C7_Stall ==
    /\ (/\ LevelEnded /\ Len(tipsC) = 1
        /\ \E D \in Range(chain_children[tipsC[1]]) : best_containing(D) /\ Number(D) > Number(finalized))
       => (~synced_any /\ stored_tips = tipsC /\ mapping = mappingC)
    /\ \A b \in DOMAIN mapping : Number(b) <= Number(finalized)
    /\ pc \in {"sync", "tips"} => Number(child) <= last_finalized
C7_Witness ==
    /\ LevelEnded /\ Len(tipsC) = 1 /\ ~synced_any
    /\ \E D \in Range(chain_children[tipsC[1]]) :
          best_containing(D) /\ Number(D) > Number(finalized) /\ D \notin DOMAIN mapping

\* C8: sync_blocks(1) on an empty frontier returns true, the frontier becomes
\* <<genesis>> and the store holds exactly the genesis entry with the
\* secondary genesis identity and no transactions; when the runtime reports
\* no secondary genesis block the call fails and writes nothing.
C8_Bootstrap ==
    /\ (pc = "loop" /\ limit = 1 /\ iter = 1 /\ tipsC = <<>>)
       => (/\ synced_any
           /\ stored_tips = <<Genesis>>
           /\ mapping = (Genesis :> [block_hash |-> Genesis,
                                     ethereum_block_hash |-> EthHash(Genesis),
                                     ethereum_transaction_hashes |-> <<>>]))
    /\ (pc = "idle" /\ result = "Ethereum genesis block not found")
       => (stored_tips = tipsC /\ mapping = mappingC)
C8_Witness ==
    /\ pc = "loop" /\ limit = 1 /\ iter = 1 /\ tipsC = <<>> /\ mappingC = EmptyMapping
    /\ stored_tips = <<Genesis>>

C10_WrittenOnce == ~overwrote

\* The entries an interrupted run left above the frontier record `tips`.
Leftover(tips, m) ==
    {c \in DOMAIN m : c \notin UNION {AncestorsOrSelf(t) : t \in Range(tips)}}
\* The mapping database of a run that indexed the path from genesis to c and
\* was never interrupted.
PathEntries(c) == [b \in AncestorsOrSelf(c) |-> Entry(b)]

\* C11: a call that starts with the entry of a block c written and the frontier
\* record not yet moved to c (an earlier run stopped between the two writes)
\* is not failed by the entry: sync_block on a block that has an entry returns
\* no error of its own, and once a step of the call succeeded the frontier is
\* <<c>> and the mapping database is the one of an uninterrupted run, the
\* database the call started with.
C11_RerunSafe ==
    /\ (pc = "sync" /\ child \in DOMAIN mapping)
          => sync_block_error(mapping, Header(child), "ok") = "ok"
    /\ \A c \in Leftover(tipsC, mappingC) :
          (pc = "loop" /\ synced_any)
            => /\ stored_tips = <<c>>
               /\ mapping = PathEntries(c)
               /\ mapping = mappingC
\* A re-run completed the step of a non-genesis block left behind.
C11_Witness ==
    /\ pc = "loop" /\ synced_any
    /\ Leftover(tipsC, mappingC) # {}
    /\ stored_tips # <<>> /\ Number(stored_tips[1]) >= 1
\* A re-run completed the bootstrap after the genesis entry was left behind.
C11_WitnessGenesis ==
    /\ pc = "loop" /\ synced_any
    /\ Genesis \in Leftover(tipsC, mappingC)

\* C12: once the frontier record is not empty (bootstrap succeeded), no step
\* of the engine or the chain makes it empty again.
C12_FrontierStaysNonEmpty == [][stored_tips # <<>> => stored_tips' # <<>>]_vars
\* After bootstrap the frontier moved on, and a later call failed.
C12_Witness ==
    /\ Failed
    /\ stored_tips # <<>> /\ Genesis \notin Range(stored_tips)

\* C13: a call that ends with a decode error (no log, or several) leaves the
\* frontier record and the mapping database as they were when the step
\* started: the tip is still in the record, the child is not, and no block
\* whose log does not decode ever has an entry or reaches the frontier write.
C13_DecodeFailureKeepsState ==
    /\ (pc = "idle" /\ result \in {"NotFound", "MultipleLogs"})
          => /\ stored_tips = tips0 /\ mapping = mapping0
             /\ stored_tips # <<>>
    /\ pc = "tips" => find_log(Digest(child)).ok
    /\ \A b \in (DOMAIN mapping \cup Range(stored_tips)) \ {Genesis} : find_log(Digest(b)).ok
\* The selected child had no log; the selected child had two.
C13_Witness ==
    /\ pc = "idle" /\ result = "NotFound"
    /\ \E c \in Range(chain_children[stored_tips[1]]) : Qualifies(c) /\ ~find_log(Digest(c)).ok
C13_WitnessMultiple ==
    /\ pc = "idle" /\ result = "MultipleLogs"
    /\ \E c \in Range(chain_children[stored_tips[1]]) : Qualifies(c) /\ ~find_log(Digest(c)).ok

\* C14: sync_blocks returns true exactly when the frontier record changed
\* during the call, and a repetition that returned Ok(false) does not end the
\* loop: as long as no repetition made progress, every repetition counted by
\* the loop ran sync_one_level.
C14_TrueIffProgress ==
    /\ pc = "loop" => (synced_any <=> stored_tips # tipsC)
    /\ (pc = "idle" /\ result = "Ok(true)") => stored_tips # tipsC
    /\ (pc = "idle" /\ result = "Ok(false)") => stored_tips = tipsC
    /\ (pc = "loop" /\ ~synced_any) => levels = iter
\* After a repetition without progress the chain changed, and a later
\* repetition of the same call advanced the frontier.
C14_Witness ==
    /\ pc = "loop" /\ synced_any /\ levels >= 2
    /\ ~quiet /\ ~test_failed
    /\ stored_tips # tipsC /\ tipsC # <<>>

\* C15: frontier <<A, Z>>, A without children, Z with a child C on the best
\* chain at or below the finalized number: the step passes over A, returns
\* Ok(true) for (Z, C), and the frontier record becomes <<A, C>>; the mapping
\* database gains the entry of C and nothing else.
C15_ChildlessTipSkipped ==
    \A C \in Blocks :
        (/\ LevelEnded /\ Len(tipsC) = 2
         /\ chain_children[tipsC[1]] = <<>>
         /\ C \in Range(chain_children[tipsC[2]]) /\ Qualifies(C))
        => (/\ synced_any
            /\ stored_tips = <<tipsC[1], C>>
            /\ mapping = write_hashes(mappingC, Entry(C)))
\* The step ended with Ok(true) on such a frontier.
C15_Witness ==
    /\ LevelEnded /\ Len(tipsC) = 2 /\ synced_any
    /\ chain_children[tipsC[1]] = <<>>
    /\ \E C \in Range(chain_children[tipsC[2]]) : Qualifies(C)

\* C16: the engine holds the import lock only inside a containment test:
\* never while it is at another step of the level (the writes of the mapping
\* entry and of the frontier record among them), and while it holds the lock
\* the block tree of the backend does not change.
C16_LockOnlyInTest ==
    /\ [](import_lock => pc = "containing")
    /\ [][import_lock => UNCHANGED blocktree]_vars
\* The lock is held for the test of a second child, after a chain change
\* that happened between the two tests.
C16_Witness ==
    /\ import_lock /\ child_idx = 2
    /\ ~quiet

\* C17: started from the empty record, the frontier record never holds more
\* than one block.
C17_AtMostOneTip == Len(stored_tips) <= 1
\* The one tip is two or more levels above genesis, with an entry left above
\* it by a run that stopped between its two writes.
C17_Witness ==
    /\ Len(stored_tips) = 1 /\ Number(stored_tips[1]) >= 2
    /\ Leftover(stored_tips, mapping) # {}

\* The blocks with an entry are closed under parent, and no two of them have
\* the same number.
EntriesFormPath ==
    /\ \A b \in DOMAIN mapping \ {Genesis} : Parent(b) \in DOMAIN mapping
    /\ \A a, b \in DOMAIN mapping : Number(a) = Number(b) => a = b
\* C18: the blocks with an entry form one parent-linked path from genesis, and
\* whenever no call is in progress the frontier member is the block with an
\* entry that has the highest number.
C18_PathEndsAtFrontier ==
    /\ EntriesFormPath
    /\ pc = "idle" =>
          \A b \in DOMAIN mapping : \E t \in Range(stored_tips) : Number(b) <= Number(t)

\* A step in which a lookup, the decoding or a write fails: every failure of
\* the level other than the one of the containment test.
OtherFailure ==
    \/ ReadTips(FALSE)
    \/ \E o \in GenesisOutcomes \ {"ok"} : SyncGenesisBlock(o)
    \/ WriteTips(FALSE)
    \/ \E o \in {"error get finalzied block", "error get finalzied block number"} : ReadLastFinalized(o)
    \/ ReadChildren(FALSE)
    \/ \E o \in {"error get child block number", "error get child number"} : ChildNumber(o)
    \/ \E o \in {"header failed", "Header not found", "write_hashes failed"} : SyncBlock(o)
    \/ (SyncBlock("ok") /\ ~find_log(Digest(child)).ok)

\* C20: a containment test that fails does not end the call and writes
\* nothing; the child counts as not contained, so a failure at the last child
\* of the deciding tip (all tests before it found nothing) ends the step with
\* Ok(false).  Every other failure ends the call with an error.
C20_OnlyContainmentErrorSwallowed ==
    [][/\ BestContaining("err")
            => /\ pc' # "idle" /\ result' = "running"
               /\ UNCHANGED store
               /\ child_idx < Len(children) => (pc' = "containing" /\ child_idx' = child_idx + 1)
               /\ child_idx = Len(children)
                     => (pc' = "loop" /\ iter' = iter + 1 /\ synced_any' = synced_any)
       /\ OtherFailure
            => /\ pc' = "idle"
               /\ result' \notin {"running", "Ok(true)", "Ok(false)", "none", "stale"}
      ]_vars
\* A step ended with Ok(false) although the tip has a child on the best chain
\* at or below the finalized number: its containment test failed.
C20_Witness ==
    /\ pc = "loop" /\ iter = 1 /\ ~synced_any
    /\ quiet /\ test_failed
    /\ stored_tips # <<>>
    /\ \E c \in Range(chain_children[stored_tips[1]]) : Qualifies(c)

\* Some finalized block has no entry.
Behind == \E b \in AncestorsOrSelf(finalized) : b \notin DOMAIN mapping

\* C19: when sync_blocks keeps being called and nothing fails, every block
\* that is finalized eventually has an entry (whenever a finalized block
\* lacks its entry, a later state has the entries of all finalized blocks;
\* entries are never removed); and a call that starts with the finalized
\* number above the number of the frontier member returns true.
C19_Progress ==
    /\ Behind ~> ~Behind
    /\ []((pc = "loop" /\ iter = limit /\ lagging) => synced_any)
\* A call that started behind the finalized block, two or more levels above
\* genesis, is about to return true.
C19_Witness ==
    /\ pc = "loop" /\ iter = limit /\ lagging /\ synced_any
    /\ Number(stored_tips[1]) >= 2
    /\ AncestorsOrSelf(finalized) \subseteq DOMAIN mapping

====
